---- MODULE Spec2Model ----
(***************************************************************************)
(* Model of the Cassandra storage layer of the messenger:                  *)
(*   app/models/cassandra_models.py  (MessageModel, ConversationModel)     *)
(*   scripts/setup_db.py             (the three tables and their keys)     *)
(*   app/controllers/message_controller.py (send_message: failure, retry)  *)
(* Every call is a process; every session.execute / cassandra_client       *)
(* .execute is one atomic step on the tables, and the steps of concurrent  *)
(* calls interleave arbitrarily.                                           *)
(***************************************************************************)
EXTENDS Integers, FiniteSets, Sequences, TLC

\* ---- bounds of the model ----
MaxProcs == 2        \* concurrent request handlers
MaxUser == 3         \* user ids 1..MaxUser
MaxId == 1           \* random ids are drawn from 0..MaxId
MaxClock == 2        \* clock readings 0..MaxClock (datetime ticks)
MaxCalls == 2        \* calls started in one behaviour, retries included
TicksPerMilli == 2   \* datetime ticks per Cassandra TIMESTAMP unit
MaxLimit == 2        \* page sizes 1..MaxLimit
MaxPage == 2         \* page numbers 1..MaxPage

\* limit: int = 20, the default page size of the read operations
DefaultLimit == 20

Procs == 1..MaxProcs
Users == 1..MaxUser
Contents == {"hi", "hey"}

\* conversation_id: Optional[int] = None
None == -1

\* int(uuid.uuid4().int % (2**31 - 1)): an unchecked random draw from a range
RandomIds == 0..MaxId

VARIABLES
    conversation_lookup,        \* rows (user1_id, user2_id, conversation_id)
    messages_by_conversation,   \* rows of the message log
    conversations_by_user,      \* rows of the per-user summaries
    now,                        \* the clock datetime.utcnow() reads
    call,                       \* call[p]: the locals of process p's call
    calls                       \* number of calls started so far

vars == <<conversation_lookup, messages_by_conversation, conversations_by_user,
          now, call, calls>>

tables == <<conversation_lookup, messages_by_conversation, conversations_by_user>>

\* ---- the schema: primary keys and clustering order ----

\* created_at TIMESTAMP: the driver stores a datetime in whole milliseconds
ToMillis(t) == t \div TicksPerMilli

\* PRIMARY KEY ((user1_id, user2_id))
LookupKey(r) == <<r.user1_id, r.user2_id>>

\* PRIMARY KEY ((conversation_id), created_at, message_id)
MessageKey(r) == <<r.conversation_id, r.created_at, r.message_id>>

\* PRIMARY KEY ((user_id), last_message_at, conversation_id)
SummaryKey(r) == <<r.user_id, r.last_message_at, r.conversation_id>>

\* INSERT is an upsert: a row with the same primary key is replaced
InsertLookup(table, row) ==
    {r \in table : LookupKey(r) # LookupKey(row)} \cup {row}

InsertMessage(table, row) ==
    {r \in table : MessageKey(r) # MessageKey(row)} \cup {row}

InsertSummary(table, row) ==
    {r \in table : SummaryKey(r) # SummaryKey(row)} \cup {row}

\* ---- create_or_get_conversation: the pure parts ----

\* mutant of Canonical: the two ids are used in the order given
CanonicalAsGiven(a, b) == <<a, b>>

\* if user1_id > user2_id: user1_id, user2_id = user2_id, user1_id
Canonical(a, b) == IF a > b THEN <<b, a>> ELSE <<a, b>>

\* SELECT conversation_id FROM conversation_lookup WHERE user1_id = .. AND user2_id = ..
SelectLookup(table, u1, u2) ==
    {r \in table : r.user1_id = u1 /\ r.user2_id = u2}

\* ---- the rows create_message writes ----

\* mutant of MessageRow: sender and receiver are stored the wrong way round
MessageRowSwapped(c) ==
    [conversation_id |-> c.conversation_id, message_id |-> c.message_id,
     sender_id |-> c.receiver_id, receiver_id |-> c.sender_id,
     content |-> c.content, created_at |-> ToMillis(c.timestamp)]

MessageRow(c) ==
    [conversation_id |-> c.conversation_id, message_id |-> c.message_id,
     sender_id |-> c.sender_id, receiver_id |-> c.receiver_id,
     content |-> c.content, created_at |-> ToMillis(c.timestamp)]

\* mutant of SenderSummaryRow: the sender's row names the sender as the other user
SenderSummaryRowNamingSelf(c) ==
    [user_id |-> c.sender_id, conversation_id |-> c.conversation_id,
     other_user_id |-> c.sender_id, last_message_at |-> ToMillis(c.timestamp),
     last_message_content |-> c.content]

SenderSummaryRow(c) ==
    [user_id |-> c.sender_id, conversation_id |-> c.conversation_id,
     other_user_id |-> c.receiver_id, last_message_at |-> ToMillis(c.timestamp),
     last_message_content |-> c.content]

\* mutant of ReceiverSummaryRow: the second summary goes to the sender's partition again
ReceiverSummaryRowOfSender(c) ==
    [user_id |-> c.sender_id, conversation_id |-> c.conversation_id,
     other_user_id |-> c.receiver_id, last_message_at |-> ToMillis(c.timestamp),
     last_message_content |-> c.content]

ReceiverSummaryRow(c) ==
    [user_id |-> c.receiver_id, conversation_id |-> c.conversation_id,
     other_user_id |-> c.sender_id, last_message_at |-> ToMillis(c.timestamp),
     last_message_content |-> c.content]

\* ---- processes ----

IdleCall ==
    [pc |-> "idle", op |-> "none", sender_id |-> 0, receiver_id |-> 0,
     content |-> "", arg_conversation_id |-> None, user1_id |-> 0, user2_id |-> 0,
     conversation_id |-> None, message_id |-> None, timestamp |-> 0,
     written |-> {}, partial |-> FALSE, frame |-> <<>>]

Init ==
    /\ conversation_lookup = {}
    /\ messages_by_conversation = {}
    /\ conversations_by_user = {}
    /\ now = 0
    /\ call = [p \in Procs |-> IdleCall]
    /\ calls = 0

\* a process that is not inside a call
AtRest(p) == call[p].pc \in {"idle", "done"}

\* return conversation_id: to the caller of create_or_get_conversation, or into
\* create_message, which goes on with it
ReturnConversation(c, id) ==
    [c EXCEPT !.pc = IF c.op = "resolve" THEN "done" ELSE "cm_stamp",
              !.conversation_id = id]

\* return {"id": message_id, "conversation_id": conversation_id, ...}
MessageResult(c) ==
    [id |-> c.message_id, conversation_id |-> c.conversation_id,
     sender_id |-> c.sender_id, receiver_id |-> c.receiver_id,
     content |-> c.content, created_at |-> c.timestamp]

\* the locals at the entry of create_message(sender_id, receiver_id, content, conversation_id)
EnterCreateMessage(s, r, c, cid) ==
    [IdleCall EXCEPT !.pc = IF cid = None THEN "cg_select" ELSE "cm_stamp",
                     !.op = "send", !.sender_id = s, !.receiver_id = r,
                     !.content = c, !.arg_conversation_id = cid,
                     !.user1_id = Canonical(s, r)[1], !.user2_id = Canonical(s, r)[2],
                     !.conversation_id = cid]

\* the locals at the entry of create_or_get_conversation(user1_id, user2_id)
EnterCreateOrGet(a, b) ==
    [IdleCall EXCEPT !.pc = "cg_select", !.op = "resolve",
                     !.sender_id = a, !.receiver_id = b,
                     !.user1_id = Canonical(a, b)[1], !.user2_id = Canonical(a, b)[2]]

\* send_message: create_message(sender_id, receiver_id, content), no conversation_id
SendMessage(p) ==
    /\ AtRest(p)
    /\ calls < MaxCalls
    /\ \E s \in Users, r \in Users, c \in Contents :
          /\ s # r
          /\ call' = [call EXCEPT ![p] = EnterCreateMessage(s, r, c, None)]
    /\ calls' = calls + 1
    /\ UNCHANGED <<tables, now>>

\* create_message called with an explicit conversation_id
CreateMessageIn(p) ==
    /\ AtRest(p)
    /\ calls < MaxCalls
    /\ \E s \in Users, r \in Users, c \in Contents, cid \in RandomIds :
          /\ s # r
          /\ call' = [call EXCEPT ![p] = EnterCreateMessage(s, r, c, cid)]
    /\ calls' = calls + 1
    /\ UNCHANGED <<tables, now>>

\* ConversationModel.create_or_get_conversation is called on its own
CreateOrGetConversation(p) ==
    /\ AtRest(p)
    /\ calls < MaxCalls
    /\ \E a \in Users, b \in Users :
          /\ a # b
          /\ call' = [call EXCEPT ![p] = EnterCreateOrGet(a, b)]
    /\ calls' = calls + 1
    /\ UNCHANGED <<tables, now>>

\* result = cassandra_client.execute(query, (user1_id, user2_id)); if result: return ...
CheckConversationExists(p) ==
    /\ call[p].pc = "cg_select"
    /\ LET result == SelectLookup(conversation_lookup, call[p].user1_id, call[p].user2_id)
       IN  IF result # {}
           THEN \E row \in result :
                   call' = [call EXCEPT ![p] = ReturnConversation(call[p], row.conversation_id)]
           ELSE call' = [call EXCEPT ![p].pc = "cg_insert"]
    /\ UNCHANGED <<tables, now, calls>>

\* conversation_id = random draw; INSERT INTO conversation_lookup; return conversation_id
CreateNewConversation(p) ==
    /\ call[p].pc = "cg_insert"
    /\ \E id \in RandomIds :
          /\ conversation_lookup' =
                InsertLookup(conversation_lookup,
                             [user1_id |-> call[p].user1_id, user2_id |-> call[p].user2_id,
                              conversation_id |-> id])
          /\ call' = [call EXCEPT ![p] = ReturnConversation(call[p], id)]
    /\ UNCHANGED <<messages_by_conversation, conversations_by_user, now, calls>>

\* message_id = random draw; timestamp = datetime.utcnow()
StampMessage(p) ==
    /\ call[p].pc = "cm_stamp"
    /\ \E id \in RandomIds, t \in now..MaxClock :
          /\ now' = t
          /\ call' = [call EXCEPT ![p].message_id = id, ![p].timestamp = t,
                                  ![p].pc = "cm_insert"]
    /\ UNCHANGED <<tables, calls>>

\* INSERT INTO messages_by_conversation
WriteMessage(p) ==
    /\ call[p].pc = "cm_insert"
    /\ messages_by_conversation' =
          InsertMessage(messages_by_conversation, MessageRow(call[p]))
    /\ call' = [call EXCEPT ![p].pc = "cm_sender",
                            ![p].written = @ \cup {MessageKey(MessageRow(call[p]))}]
    /\ UNCHANGED <<conversation_lookup, conversations_by_user, now, calls>>

\* INSERT INTO conversations_by_user, the sender's row
WriteSenderSummary(p) ==
    /\ call[p].pc = "cm_sender"
    /\ conversations_by_user' =
          InsertSummary(conversations_by_user, SenderSummaryRow(call[p]))
    /\ call' = [call EXCEPT ![p].pc = "cm_receiver"]
    /\ UNCHANGED <<conversation_lookup, messages_by_conversation, now, calls>>

\* INSERT INTO conversations_by_user, the receiver's row; return the message
WriteReceiverSummary(p) ==
    /\ call[p].pc = "cm_receiver"
    /\ conversations_by_user' =
          InsertSummary(conversations_by_user, ReceiverSummaryRow(call[p]))
    /\ call' = [call EXCEPT ![p] = [IdleCall EXCEPT !.pc = "done", !.op = "send",
                                              !.conversation_id = call[p].conversation_id]]
    /\ UNCHANGED <<conversation_lookup, messages_by_conversation, now, calls>>

\* an execute raises (storage unavailable); send_message turns it into HTTP 500
ExecuteFails(p) ==
    /\ call[p].pc \in {"cg_select", "cg_insert", "cm_insert", "cm_sender", "cm_receiver"}
    /\ call' = [call EXCEPT ![p].pc = "failed"]
    /\ UNCHANGED <<tables, now, calls>>

\* the caller repeats the failed call with the same arguments
Retry(p) ==
    /\ call[p].pc = "failed"
    /\ calls < MaxCalls
    /\ calls' = calls + 1
    /\ call' = [call EXCEPT ![p] =
                  IF call[p].op = "send"
                  THEN [EnterCreateMessage(call[p].sender_id, call[p].receiver_id,
                                           call[p].content, call[p].arg_conversation_id)
                          EXCEPT !.written = call[p].written,
                                 !.partial = (call[p].written # {})]
                  ELSE EnterCreateOrGet(call[p].sender_id, call[p].receiver_id)]
    /\ UNCHANGED <<tables, now>>

Step(p) ==
    \/ SendMessage(p)
    \/ CreateOrGetConversation(p)
    \/ CheckConversationExists(p)
    \/ CreateNewConversation(p)
    \/ StampMessage(p)
    \/ WriteMessage(p)
    \/ WriteSenderSummary(p)
    \/ WriteReceiverSummary(p)
    \/ ExecuteFails(p)
    \/ Retry(p)

Next == \E p \in Procs : Step(p)

Spec == Init /\ [][Next]_vars

\* calls run one after another: a process moves only while no other is inside a call
NoOtherRunning(p) == \A q \in Procs \ {p} : call[q].pc \in {"idle", "done", "failed"}

SeqNext ==
    \E p \in Procs :
        \/ NoOtherRunning(p) /\ SendMessage(p)
        \/ NoOtherRunning(p) /\ CreateOrGetConversation(p)
        \/ NoOtherRunning(p) /\ CheckConversationExists(p)
        \/ NoOtherRunning(p) /\ CreateNewConversation(p)
        \/ NoOtherRunning(p) /\ StampMessage(p)
        \/ NoOtherRunning(p) /\ WriteMessage(p)
        \/ NoOtherRunning(p) /\ WriteSenderSummary(p)
        \/ NoOtherRunning(p) /\ WriteReceiverSummary(p)
        \/ NoOtherRunning(p) /\ ExecuteFails(p)
        \/ NoOtherRunning(p) /\ Retry(p)

SeqSpec == Init /\ [][SeqNext]_vars

\* create_message is also called with a conversation_id of the caller's choice
DirectNext == \E p \in Procs : Step(p) \/ CreateMessageIn(p)

DirectSpec == Init /\ [][DirectNext]_vars

\* ---- the read operations ----

Min(a, b) == IF a < b THEN a ELSE b

\* the driver returns a stored TIMESTAMP as a datetime on a millisecond boundary
FromMillis(ms) == ms * TicksPerMilli

\* LIMIT %s
Limit(rows, limit) == SubSeq(rows, 1, Min(limit, Len(rows)))

\* mutant of MessageOrder: the partition is clustered by created_at ascending
MessageOrderAscending(a, b) ==
    \/ a.created_at < b.created_at
    \/ a.created_at = b.created_at /\ a.message_id < b.message_id

\* WITH CLUSTERING ORDER BY (created_at DESC, message_id ASC)
MessageOrder(a, b) ==
    \/ a.created_at > b.created_at
    \/ a.created_at = b.created_at /\ a.message_id < b.message_id

\* mutant of SummaryOrder: the partition is clustered by last_message_at ascending
SummaryOrderAscending(a, b) ==
    \/ a.last_message_at < b.last_message_at
    \/ a.last_message_at = b.last_message_at /\ a.conversation_id < b.conversation_id

\* WITH CLUSTERING ORDER BY (last_message_at DESC, conversation_id ASC)
SummaryOrder(a, b) ==
    \/ a.last_message_at > b.last_message_at
    \/ a.last_message_at = b.last_message_at /\ a.conversation_id < b.conversation_id

\* the rows of one partition of messages_by_conversation, in clustering order
RECURSIVE MessagePartition(_)
MessagePartition(rows) ==
    IF rows = {} THEN <<>>
    ELSE LET first == CHOOSE x \in rows : \A y \in rows \ {x} : MessageOrder(x, y)
         IN  <<first>> \o MessagePartition(rows \ {first})

\* the rows of one partition of conversations_by_user, in clustering order
RECURSIVE SummaryPartition(_)
SummaryPartition(rows) ==
    IF rows = {} THEN <<>>
    ELSE LET first == CHOOSE x \in rows : \A y \in rows \ {x} : SummaryOrder(x, y)
         IN  <<first>> \o SummaryPartition(rows \ {first})

\* a row of messages_by_conversation as a SELECT hands it to Python
ReadMessage(r) == [r EXCEPT !.created_at = FromMillis(r.created_at)]

\* a row of conversations_by_user as a SELECT hands it to Python
ReadSummary(r) == [r EXCEPT !.last_message_at = FromMillis(r.last_message_at)]

ReadMessages(rows) == [i \in 1..Len(rows) |-> ReadMessage(rows[i])]

ReadSummaries(rows) == [i \in 1..Len(rows) |-> ReadSummary(rows[i])]

\* get_conversation returns None: the partition has no row
NoConversation == [id |-> None]

\* get_conversation(conversation_id): SELECT ... LIMIT 1 of the partition, the
\* participants taken from the sender and the receiver of that message
GetConversation(table, conversation_id) ==
    LET result == Limit(ReadMessages(MessagePartition(
                     {r \in table : r.conversation_id = conversation_id})), 1)
    IN  IF result = <<>> THEN NoConversation
        ELSE LET msg == result[1]
             IN  [id |-> conversation_id,
                  user1_id |-> msg.sender_id,
                  user2_id |-> msg.receiver_id,
                  last_message_at |-> msg.created_at,
                  last_message_content |-> msg.content]

\* mutant of GetConversationMessages: total is the length of the page
GetConversationMessagesCountingPage(table, conversation_id, page, limit) ==
    LET part == {r \in table : r.conversation_id = conversation_id}
    IN  [total |-> Min(limit, Cardinality(part)), page |-> page, limit |-> limit,
         data |-> ReadMessages(Limit(MessagePartition(part), limit))]

\* MessageModel.get_conversation_messages(conversation_id, page, limit)
GetConversationMessages(table, conversation_id, page, limit) ==
    LET part == {r \in table : r.conversation_id = conversation_id}
    IN  [total |-> Cardinality(part), page |-> page, limit |-> limit,
         data |-> ReadMessages(Limit(MessagePartition(part), limit))]

\* mutant of GetMessagesBeforeTimestamp: page selects the rows, skipping the pages before
GetMessagesBeforeTimestampPaged(table, conversation_id, before_timestamp, page, limit) ==
    LET part == {r \in table : /\ r.conversation_id = conversation_id
                               /\ r.created_at < ToMillis(before_timestamp)}
        rows == MessagePartition(part)
    IN  [total |-> Cardinality(part), page |-> page, limit |-> limit,
         data |-> ReadMessages(Limit(SubSeq(rows, (page - 1) * limit + 1, Len(rows)),
                                     limit))]

\* MessageModel.get_messages_before_timestamp(conversation_id, before_timestamp, page, limit)
GetMessagesBeforeTimestamp(table, conversation_id, before_timestamp, page, limit) ==
    LET part == {r \in table : /\ r.conversation_id = conversation_id
                               /\ r.created_at < ToMillis(before_timestamp)}
    IN  [total |-> Cardinality(part), page |-> page, limit |-> limit,
         data |-> ReadMessages(Limit(MessagePartition(part), limit))]

\* mutant of GetUserConversations: the count query has lost its WHERE user_id = %s
GetUserConversationsCountingAll(table, user_id, page, limit) ==
    LET part == {r \in table : r.user_id = user_id}
    IN  [total |-> Cardinality(table), page |-> page, limit |-> limit,
         data |-> ReadSummaries(Limit(SummaryPartition(part), limit))]

\* ConversationModel.get_user_conversations(user_id, page, limit)
GetUserConversations(table, user_id, page, limit) ==
    LET part == {r \in table : r.user_id = user_id}
    IN  [total |-> Cardinality(part), page |-> page, limit |-> limit,
         data |-> ReadSummaries(Limit(SummaryPartition(part), limit))]

\* ---- properties ----

\* the conversation_lookup rows of the unordered pair {a, b}
RowsOfPair(table, a, b) == {r \in table : {r.user1_id, r.user2_id} = {a, b}}

\* process p holds a conversation id that create_or_get_conversation returned
HoldsConversation(p) ==
    \/ call[p].op = "resolve" /\ call[p].pc = "done"
    \/ /\ call[p].op = "send" /\ call[p].arg_conversation_id = None
       /\ call[p].pc \in {"cm_stamp", "cm_insert", "cm_sender", "cm_receiver"}

\* the step in which create_or_get_conversation returns to process p
ReturnsConversation(p) ==
    /\ call[p].pc \in {"cg_select", "cg_insert"}
    /\ call'[p].pc \in {"done", "cm_stamp"}

\* the step in which create_message returns to process p
ReturnsMessage(p) == call[p].pc = "cm_receiver" /\ call'[p].pc = "done"

\* C1: concurrent create_or_get_conversation calls for one pair all return the same
\* conversation id: no two processes hold different ids for the same pair.
C1_ConcurrentCallsAgree ==
    \A p \in Procs, q \in Procs :
        ( /\ HoldsConversation(p) /\ HoldsConversation(q)
          /\ {call[p].sender_id, call[p].receiver_id} = {call[q].sender_id, call[q].receiver_id} )
        => call[p].conversation_id = call[q].conversation_id

\* C2: when calls run one after another, a call of create_or_get_conversation for a
\* pair that has a lookup row returns that row's id, whichever order the two users are
\* given in, and leaves conversation_lookup as it is; a call for a pair that has none
\* leaves exactly one row for the pair, holding the id it returns; and no step changes
\* or removes a row. So (A, B), (B, A) and every repeated call return one id.
C2_SequentialCallsReturnOneId ==
    [][ /\ conversation_lookup \subseteq conversation_lookup'
        /\ \A p \in Procs :
              ReturnsConversation(p) =>
                 LET a == call[p].sender_id
                     b == call[p].receiver_id
                     old == RowsOfPair(conversation_lookup, a, b)
                     new == RowsOfPair(conversation_lookup', a, b)
                 IN  /\ old # {} => conversation_lookup' = conversation_lookup
                     /\ Cardinality(new) = 1
                     /\ \A r \in new : r.conversation_id = call'[p].conversation_id
      ]_vars

\* C2 witness: create_or_get_conversation(A, B) and create_or_get_conversation(B, A)
\* have both returned, with the same id, and the pair has one lookup row.
C2_Witness ==
    \E p \in Procs, q \in Procs :
        /\ p # q
        /\ call[p].op = "resolve" /\ call[p].pc = "done"
        /\ call[q].op = "resolve" /\ call[q].pc = "done"
        /\ call[p].sender_id = call[q].receiver_id
        /\ call[p].receiver_id = call[q].sender_id
        /\ call[p].conversation_id = call[q].conversation_id
        /\ Cardinality(RowsOfPair(conversation_lookup, call[p].sender_id, call[p].receiver_id)) = 1

\* C3: every message of a pair of users is stored in the one partition whose id
\* conversation_lookup maps the pair to.
C3_OnePartitionPerPair ==
    \A m \in messages_by_conversation :
        \E r \in conversation_lookup :
            /\ r.user1_id = Min(m.sender_id, m.receiver_id)
            /\ {r.user1_id, r.user2_id} = {m.sender_id, m.receiver_id}
            /\ r.conversation_id = m.conversation_id

\* C4: a conversation_lookup row, once written, is never removed and never changed.
C4_LookupRowsAreStable ==
    [][\A r \in conversation_lookup : r \in conversation_lookup']_vars

\* the entries of a get_user_conversations listing that belong to one conversation
EntriesFor(data, conversation_id) ==
    SelectSeq(data, LAMBDA e : e.conversation_id = conversation_id)

C6_OneSummaryRowPerConversation ==
    \A r1 \in conversations_by_user, r2 \in conversations_by_user :
        ( /\ r1.user_id = r2.user_id
          /\ r1.conversation_id = r2.conversation_id
          /\ r1.other_user_id = r2.other_user_id ) => r1 = r2

\* the pages after `prev`, each read with the created_at of the last item before it
RECURSIVE PagesAfter(_, _, _, _)
PagesAfter(table, conversation_id, limit, prev) ==
    IF prev = <<>> THEN <<>>
    ELSE LET next == GetMessagesBeforeTimestamp(table, conversation_id,
                                                prev[Len(prev)].created_at, 1, limit).data
         IN  next \o PagesAfter(table, conversation_id, limit, next)

\* get_conversation_messages, then get_messages_before_timestamp until a page is empty
PageThrough(table, conversation_id, limit) ==
    LET first == GetConversationMessages(table, conversation_id, 1, limit).data
    IN  first \o PagesAfter(table, conversation_id, limit, first)

\* C7: paging through a conversation with the created_at of each page's last item as
\* the next cursor yields every message exactly once, in strictly descending
\* created_at order, for every page size.
C7_PaginationExhaustive ==
    \A cid \in RandomIds, limit \in 1..MaxLimit :
        LET got == PageThrough(messages_by_conversation, cid, limit)
            part == {r \in messages_by_conversation : r.conversation_id = cid}
        IN  /\ \A m \in part :
                  Cardinality({i \in 1..Len(got) : got[i] = ReadMessage(m)}) = 1
            /\ \A i \in 1..Len(got) : \E m \in part : got[i] = ReadMessage(m)
            /\ \A i \in 1..Len(got), j \in 1..Len(got) :
                  i < j => got[i].created_at > got[j].created_at

\* C8: no create_message replaces or removes a stored row (every row stays, with its
\* sender, receiver, content and created_at), and a message id names one message of a
\* conversation: a write never reuses the message_id of another row of its partition.
C8_MessagesUniqueAndKept ==
    [][ /\ \A m \in messages_by_conversation : m \in messages_by_conversation'
        /\ \A p \in Procs :
              (call[p].pc = "cm_insert" /\ call'[p].pc = "cm_sender") =>
                 \A m \in messages_by_conversation :
                    ( /\ m.conversation_id = call[p].conversation_id
                      /\ m.message_id = call[p].message_id ) => m = MessageRow(call[p])
      ]_vars

\* some conversation_lookup row maps to this conversation id
KnownConversation(table, conversation_id) ==
    \E r \in table : r.conversation_id = conversation_id

\* C9: create_message with a conversation_id that no conversation_lookup row maps to
\* fails: the call never writes a row for it.
C9_UnknownConversationRejected ==
    [][\A p \in Procs :
          ( /\ call[p].op = "send"
            /\ call[p].arg_conversation_id # None
            /\ ~KnownConversation(conversation_lookup, call[p].arg_conversation_id)
            /\ call'[p].pc # call[p].pc )
          => /\ messages_by_conversation' = messages_by_conversation
             /\ conversations_by_user' = conversations_by_user
      ]_vars

\* the rows of messages_by_conversation that the send of process p has written
OwnMessages(table, c) ==
    {m \in table : /\ MessageKey(m) \in c.written
                   /\ m.sender_id = c.sender_id /\ m.receiver_id = c.receiver_id
                   /\ m.content = c.content}

\* C10: a send that failed after its message row was written and is then retried leaves
\* the message once in messages_by_conversation when create_message returns.
C10_RetryAddsNoDuplicate ==
    [][\A p \in Procs :
          (ReturnsMessage(p) /\ call[p].partial) =>
             Cardinality(OwnMessages(messages_by_conversation', call[p])) = 1
      ]_vars

\* the step in which create_message stores its message row
StoresMessage(p) == call[p].pc = "cm_insert" /\ call'[p].pc = "cm_sender"

\* the created_at a read gives for a message that create_message returned as `t`
StoredCreatedAt(t) == FromMillis(ToMillis(t))

\* the rows the two page reads return for the message create_message returns as `res`:
\* those of its conversation with its message id and its stored created_at
ReadBack(table, res) ==
    LET all == GetConversationMessages(table, res.conversation_id, 1, DefaultLimit).data
        before == GetMessagesBeforeTimestamp(table, res.conversation_id,
                                             FromMillis(ToMillis(res.created_at) + 1),
                                             1, DefaultLimit).data
        mine(r) == r.message_id = res.id /\ r.created_at = StoredCreatedAt(res.created_at)
    IN  <<SelectSeq(all, mine), SelectSeq(before, mine)>>

\* C11 (as stated): the message read back has the sender_id, receiver_id, content,
\* message id and created_at that create_message returns.
C11_ReadBackEqualsReturned ==
    [][\A p \in Procs :
          StoresMessage(p) =>
             LET res == MessageResult(call[p])
             IN  \A r \in {x \in messages_by_conversation' :
                              /\ x.conversation_id = res.conversation_id
                              /\ x.message_id = res.id
                              /\ x.created_at = ToMillis(res.created_at)} :
                    /\ ReadMessage(r).sender_id = res.sender_id
                    /\ ReadMessage(r).receiver_id = res.receiver_id
                    /\ ReadMessage(r).content = res.content
                    /\ ReadMessage(r).created_at = res.created_at
      ]_vars

\* C11 (amended): once create_message has stored its message, both page reads return
\* it exactly once, with the sender_id, receiver_id, content and message id that
\* create_message returns; its created_at is the returned created_at cut to whole
\* milliseconds.
C11_ReadBackUpToMillis ==
    [][\A p \in Procs :
          StoresMessage(p) =>
             LET res == MessageResult(call[p])
                 back == ReadBack(messages_by_conversation', res)
             IN  \A k \in 1..2 :
                    /\ Len(back[k]) = 1
                    /\ back[k][1].conversation_id = res.conversation_id
                    /\ back[k][1].message_id = res.id
                    /\ back[k][1].sender_id = res.sender_id
                    /\ back[k][1].receiver_id = res.receiver_id
                    /\ back[k][1].content = res.content
                    /\ back[k][1].created_at = StoredCreatedAt(res.created_at)
      ]_vars

\* C11 witness: a message whose timestamp is not on a millisecond boundary is stored
\* and both reads return it, with a created_at other than the one create_message returns.
C11_Witness ==
    \E p \in Procs :
        /\ call[p].pc \in {"cm_sender", "cm_receiver"}
        /\ StoredCreatedAt(call[p].timestamp) # call[p].timestamp
        /\ LET res == MessageResult(call[p])
               back == ReadBack(messages_by_conversation, res)
           IN  \A k \in 1..2 :
                  /\ Len(back[k]) = 1
                  /\ back[k][1].sender_id = res.sender_id
                  /\ back[k][1].content = res.content
                  /\ back[k][1].created_at # res.created_at

\* the before_timestamp values a caller passes: any datetime of the clock's range
Cursors == 0..FromMillis(ToMillis(MaxClock) + 1)

\* `data` is the newest `limit` rows of `eligible` (rows as stored), newest first
NewestFirst(data, eligible, limit) ==
    /\ Len(data) = Min(limit, Cardinality(eligible))
    /\ \A i \in 1..Len(data) : \E m \in eligible : data[i] = ReadMessage(m)
    /\ \A i \in 1..Len(data), j \in 1..Len(data) :
          i < j => /\ data[i] # data[j]
                   /\ data[i].created_at >= data[j].created_at
    /\ \A m \in eligible :
          (\A i \in 1..Len(data) : data[i] # ReadMessage(m))
             => \A i \in 1..Len(data) : data[i].created_at >= ReadMessage(m).created_at

\* C12 (as stated): a page read returns at most limit messages, newest first:
\* get_conversation_messages the newest limit messages of the partition,
\* get_messages_before_timestamp(c, T) the newest limit messages among those with
\* created_at < T, and none with created_at >= T.
C12_PageIsNewestBeforeCursor ==
    \A cid \in RandomIds, limit \in 1..MaxLimit :
        LET part == {r \in messages_by_conversation : r.conversation_id = cid}
        IN  /\ NewestFirst(GetConversationMessages(messages_by_conversation, cid, 1,
                                                   limit).data, part, limit)
            /\ \A T \in Cursors :
                  LET data == GetMessagesBeforeTimestamp(messages_by_conversation, cid,
                                                         T, 1, limit).data
                  IN  /\ NewestFirst(data,
                                     {r \in part : ReadMessage(r).created_at < T}, limit)
                      /\ \A i \in 1..Len(data) : data[i].created_at < T

\* C12 (amended): the same, where get_messages_before_timestamp(c, T) takes the newest
\* limit messages among those with created_at less than T cut to whole milliseconds.
C12_PageIsNewestBeforeCursorMillis ==
    \A cid \in RandomIds, limit \in 1..MaxLimit :
        LET part == {r \in messages_by_conversation : r.conversation_id = cid}
        IN  /\ NewestFirst(GetConversationMessages(messages_by_conversation, cid, 1,
                                                   limit).data, part, limit)
            /\ \A T \in Cursors :
                  LET data == GetMessagesBeforeTimestamp(messages_by_conversation, cid,
                                                         T, 1, limit).data
                  IN  /\ NewestFirst(data,
                                     {r \in part : ReadMessage(r).created_at
                                                      < StoredCreatedAt(T)}, limit)
                      /\ \A i \in 1..Len(data) : data[i].created_at < T

\* C12 witness: a partition holds an older and a newer message; a page of one gives the
\* newer, a page before the newer's created_at gives the older, and a cursor inside the
\* older's millisecond gives nothing.
C12_Witness ==
    \E cid \in RandomIds :
        \E old \in messages_by_conversation, new \in messages_by_conversation :
            /\ old.conversation_id = cid /\ new.conversation_id = cid
            /\ old.created_at < new.created_at
            /\ GetConversationMessages(messages_by_conversation, cid, 1, 1).data
                  = <<ReadMessage(new)>>
            /\ GetMessagesBeforeTimestamp(messages_by_conversation, cid,
                                          ReadMessage(new).created_at, 1, 1).data
                  = <<ReadMessage(old)>>
            /\ GetMessagesBeforeTimestamp(messages_by_conversation, cid,
                                          ReadMessage(old).created_at + 1, 1, 1).data
                  = <<>>

\* C13 (as stated): the total of a page read, with or without a cursor and for any
\* limit, is the number of messages stored in the conversation's partition.
C13_TotalIsPartitionSize ==
    \A cid \in RandomIds, limit \in 1..MaxLimit :
        LET part == {r \in messages_by_conversation : r.conversation_id = cid}
        IN  /\ GetConversationMessages(messages_by_conversation, cid, 1, limit).total
                  = Cardinality(part)
            /\ \A T \in Cursors :
                  GetMessagesBeforeTimestamp(messages_by_conversation, cid, T, 1,
                                             limit).total = Cardinality(part)

\* C13 (amended): for any limit, the total of get_conversation_messages is the number
\* of messages in the partition, and the total of get_messages_before_timestamp(c, T)
\* is the number of messages of the partition that lie before the cursor.
C13_TotalIsCountBeforeCursor ==
    \A cid \in RandomIds, limit \in 1..MaxLimit :
        LET part == {r \in messages_by_conversation : r.conversation_id = cid}
        IN  /\ GetConversationMessages(messages_by_conversation, cid, 1, limit).total
                  = Cardinality(part)
            /\ \A T \in Cursors :
                  GetMessagesBeforeTimestamp(messages_by_conversation, cid, T, 1,
                                             limit).total
                     = Cardinality({r \in part :
                                       ReadMessage(r).created_at < StoredCreatedAt(T)})

\* C13 witness: a partition of two messages; the first page of one message reports
\* total 2, the page before the newer message's created_at reports total 1.
C13_Witness ==
    \E cid \in RandomIds :
        \E old \in messages_by_conversation, new \in messages_by_conversation :
            /\ old.conversation_id = cid /\ new.conversation_id = cid
            /\ old.created_at < new.created_at
            /\ LET first == GetConversationMessages(messages_by_conversation, cid, 1, 1)
                   next == GetMessagesBeforeTimestamp(messages_by_conversation, cid,
                                                      ReadMessage(new).created_at, 1, 1)
               IN  /\ first.total = 2 /\ Len(first.data) = 1
                   /\ next.total = 1 /\ Len(next.data) = 1

NewestMessages(part) ==
    {m \in part : \A o \in part : o.created_at <= m.created_at}

\* the first entry for a conversation in get_user_conversations(u): a singleton, or {}
MostRecentEntry(table, u, conversation_id) ==
    LET es == EntriesFor(GetUserConversations(table, u, 1, DefaultLimit).data,
                         conversation_id)
    IN  IF es = <<>> THEN {} ELSE {es[1]}

\* C15: whenever no create_message is in progress, the most recent entry of each
\* participant for a conversation carries the created_at and the content of the newest
\* message of the conversation, and the two participants' entries agree.
C15_ViewsAgreeWhenQuiet ==
    (\A p \in Procs : AtRest(p)) =>
       \A cid \in RandomIds :
          LET part == {r \in messages_by_conversation : r.conversation_id = cid}
              users == {r.sender_id : r \in part} \cup {r.receiver_id : r \in part}
          IN  (part # {} /\ Cardinality(users) = 2) =>
                 /\ \A u \in users :
                       \E e \in MostRecentEntry(conversations_by_user, u, cid) :
                          \E m \in NewestMessages(part) :
                             /\ e.last_message_at = ReadMessage(m).created_at
                             /\ e.last_message_content = m.content
                 /\ \A u \in users, v \in users :
                       \A e \in MostRecentEntry(conversations_by_user, u, cid),
                          f \in MostRecentEntry(conversations_by_user, v, cid) :
                             /\ e.last_message_at = f.last_message_at
                             /\ e.last_message_content = f.last_message_content

\* C16: the message row is written before the two summary rows, so in every state,
\* also after a failure part-way, every conversations_by_user row (c, t, x) has a
\* message in partition c of messages_by_conversation with created_at t and content x.
C16_SummaryHasItsMessage ==
    \A s \in conversations_by_user :
       \E m \in messages_by_conversation :
          /\ m.conversation_id = s.conversation_id
          /\ m.created_at = s.last_message_at
          /\ m.content = s.last_message_content

\* the step replaces conversations_by_user by itself with one row upserted, the row
\* being of partition user_id and naming other_user_id, for call c
UpsertsSummaryOf(c, user_id, other_user_id) ==
    \E row \in conversations_by_user' :
       /\ row.user_id = user_id
       /\ row.other_user_id = other_user_id
       /\ row.conversation_id = c.conversation_id
       /\ row.last_message_at = ToMillis(c.timestamp)
       /\ row.last_message_content = c.content
       /\ conversations_by_user' \ {row} \subseteq conversations_by_user
       /\ \A old \in conversations_by_user \ conversations_by_user' :
             SummaryKey(old) = SummaryKey(row)

WritesSenderSummary(p) == call[p].pc = "cm_sender" /\ call'[p].pc = "cm_receiver"

\* C17: a create_message that completes has made exactly two conversations_by_user
\* writes, first the row of the sender naming the receiver, then the row of the
\* receiver naming the sender, and nothing else writes the table; so every summary
\* row names a user other than its owner.
C17_TwoMirroredSummaryWrites ==
    [][/\ \A p \in Procs :
             /\ WritesSenderSummary(p) =>
                   UpsertsSummaryOf(call[p], call[p].sender_id, call[p].receiver_id)
             /\ ReturnsMessage(p) =>
                   UpsertsSummaryOf(call[p], call[p].receiver_id, call[p].sender_id)
             /\ (call'[p].pc = "cm_receiver" /\ call[p].pc # "cm_receiver") =>
                   WritesSenderSummary(p)
             /\ (call'[p].pc = "done" /\ call'[p].op = "send" /\ call[p].pc # "done") =>
                   ReturnsMessage(p)
       /\ conversations_by_user' # conversations_by_user =>
             \E p \in Procs : WritesSenderSummary(p) \/ ReturnsMessage(p)
       /\ \A s \in conversations_by_user' :
             s.other_user_id \in Users \ {s.user_id}]_vars

C17_Witness ==
    \E p \in Procs :
       /\ call[p].pc = "done"
       /\ call[p].op = "send"
       /\ \E s \in conversations_by_user, m \in conversations_by_user :
             /\ s.user_id = m.other_user_id
             /\ m.user_id = s.other_user_id
             /\ s.conversation_id = m.conversation_id
             /\ s.last_message_at = m.last_message_at
             /\ s.last_message_content = m.last_message_content

\* the unordered pair of users of a message
PairOf(m) == {m.sender_id, m.receiver_id}

\* C18: each conversation id belongs to at most one unordered pair: no two rows of
\* conversation_lookup of different pairs hold the same conversation_id, and no
\* messages_by_conversation partition contains messages of two different pairs.
C18_OnePairPerConversationId ==
    /\ \A a \in conversation_lookup, b \in conversation_lookup :
          a.conversation_id = b.conversation_id => LookupKey(a) = LookupKey(b)
    /\ \A m \in messages_by_conversation, n \in messages_by_conversation :
          m.conversation_id = n.conversation_id => PairOf(m) = PairOf(n)

\* C19: get_conversation(c) of a conversation with a message reports the two
\* participants smaller-first (user1_id < user2_id, as conversation_lookup stores
\* them), whoever sent the latest message, with the created_at and the content of the
\* newest message.
C19_ConversationCanonical ==
    \A cid \in RandomIds :
       LET part == {r \in messages_by_conversation : r.conversation_id = cid}
           c == GetConversation(messages_by_conversation, cid)
       IN  part # {} =>
              /\ c.id = cid
              /\ c.user1_id < c.user2_id
              /\ \A l \in conversation_lookup :
                    (l.conversation_id = cid /\ {l.user1_id, l.user2_id} = {c.user1_id, c.user2_id})
                       => (c.user1_id = l.user1_id /\ c.user2_id = l.user2_id)
              /\ \E m \in NewestMessages(part) :
                    /\ c.last_message_at = ReadMessage(m).created_at
                    /\ c.last_message_content = m.content

\* C20: get_user_conversations(u, limit) returns at most limit entries, all of user
\* u, sorted by last_message_at descending, so that the entry of the most recent
\* message of the user is the first one.
C20_ConversationsNewestFirst ==
    \A u \in Users, limit \in (1..MaxLimit) \cup {DefaultLimit} :
       LET part == {r \in conversations_by_user : r.user_id = u}
           data == GetUserConversations(conversations_by_user, u, 1, limit).data
       IN  /\ Len(data) = Min(limit, Cardinality(part))
           /\ \A i \in 1..Len(data) :
                 \E r \in part : data[i] = ReadSummary(r)
           /\ \A i \in 1..Len(data), j \in 1..Len(data) :
                 i < j => data[i].last_message_at >= data[j].last_message_at
           /\ data # <<>> =>
                 \A r \in part : FromMillis(r.last_message_at) <= data[1].last_message_at

\* C20 witness: a user has entries of two different times, more of them than the
\* limit, and the read returns the newer one.
C20_Witness ==
    \E u \in Users :
       LET part == {r \in conversations_by_user : r.user_id = u}
           data == GetUserConversations(conversations_by_user, u, 1, 1).data
       IN  /\ \E a \in part, b \in part : a.last_message_at < b.last_message_at
           /\ Len(data) = 1
           /\ \E a \in part : FromMillis(a.last_message_at) < data[1].last_message_at

\* the page numbers a caller passes other than the default, page: int = 1
Pages == 2..MaxPage

\* the result of a read made with page 1, as a call with another page must give it:
\* the same total, limit and data, the page echoed
WithPage(res, page) == [res EXCEPT !.page = page]

ReadFrame(key, before_timestamp, page, limit, result) ==
    [key |-> key, before_timestamp |-> before_timestamp, page |-> page,
     limit |-> limit, result |-> result]

\* the locals of process p at the return of a read
Returned(op, value) == [IdleCall EXCEPT !.pc = "done", !.op = op, !.frame = value]

\* return {"total": total, "page": page, "limit": limit, "data": result}
ReadResult(f, total) ==
    [total |-> total, page |-> f.page, limit |-> f.limit, data |-> f.result]

\* get_conversation_messages: the SELECT ... LIMIT query
CallGetConversationMessages(p) ==
    /\ AtRest(p)
    /\ calls < MaxCalls
    /\ calls' = calls + 1
    /\ \E cid \in RandomIds, page \in 1..MaxPage, limit \in 1..MaxLimit :
          call' = [call EXCEPT ![p] =
             [IdleCall EXCEPT !.pc = "gcm_count", !.op = "get_conversation_messages",
                !.frame = ReadFrame(cid, None, page, limit,
                             GetConversationMessages(messages_by_conversation, cid,
                                                     page, limit).data)]]
    /\ UNCHANGED <<tables, now>>

\* get_conversation_messages: the COUNT(*) query and the return
CountConversationMessages(p) ==
    /\ call[p].pc = "gcm_count"
    /\ LET f == call[p].frame
       IN  call' = [call EXCEPT ![p] = Returned(call[p].op,
              ReadResult(f, GetConversationMessages(messages_by_conversation, f.key,
                                                    f.page, f.limit).total))]
    /\ UNCHANGED <<tables, now, calls>>

\* get_messages_before_timestamp: the SELECT ... AND created_at < %s LIMIT query
CallGetMessagesBeforeTimestamp(p) ==
    /\ AtRest(p)
    /\ calls < MaxCalls
    /\ calls' = calls + 1
    /\ \E cid \in RandomIds, T \in Cursors, page \in 1..MaxPage, limit \in 1..MaxLimit :
          call' = [call EXCEPT ![p] =
             [IdleCall EXCEPT !.pc = "gmb_count", !.op = "get_messages_before_timestamp",
                !.frame = ReadFrame(cid, T, page, limit,
                             GetMessagesBeforeTimestamp(messages_by_conversation, cid,
                                                        T, page, limit).data)]]
    /\ UNCHANGED <<tables, now>>

\* get_messages_before_timestamp: the COUNT(*) query and the return
CountMessagesBeforeTimestamp(p) ==
    /\ call[p].pc = "gmb_count"
    /\ LET f == call[p].frame
       IN  call' = [call EXCEPT ![p] = Returned(call[p].op,
              ReadResult(f, GetMessagesBeforeTimestamp(messages_by_conversation, f.key,
                               f.before_timestamp, f.page, f.limit).total))]
    /\ UNCHANGED <<tables, now, calls>>

\* get_user_conversations: the SELECT ... LIMIT query
CallGetUserConversations(p) ==
    /\ AtRest(p)
    /\ calls < MaxCalls
    /\ calls' = calls + 1
    /\ \E u \in Users, page \in 1..MaxPage, limit \in 1..MaxLimit :
          call' = [call EXCEPT ![p] =
             [IdleCall EXCEPT !.pc = "guc_count", !.op = "get_user_conversations",
                !.frame = ReadFrame(u, None, page, limit,
                             GetUserConversations(conversations_by_user, u,
                                                  page, limit).data)]]
    /\ UNCHANGED <<tables, now>>

\* get_user_conversations: the COUNT(*) query and the return
CountUserConversations(p) ==
    /\ call[p].pc = "guc_count"
    /\ LET f == call[p].frame
       IN  call' = [call EXCEPT ![p] = Returned(call[p].op,
              ReadResult(f, GetUserConversations(conversations_by_user, f.key,
                                                 f.page, f.limit).total))]
    /\ UNCHANGED <<tables, now, calls>>

\* mutant of CallGetConversation: a conversation that is not found is created
CallGetConversationCreating(p) ==
    /\ AtRest(p)
    /\ calls < MaxCalls
    /\ calls' = calls + 1
    /\ \E cid \in RandomIds :
          /\ call' = [call EXCEPT ![p] = Returned("get_conversation",
                         GetConversation(messages_by_conversation, cid))]
          /\ conversation_lookup' =
                IF GetConversation(messages_by_conversation, cid) = NoConversation
                THEN InsertLookup(conversation_lookup,
                        [user1_id |-> 1, user2_id |-> 2, conversation_id |-> cid])
                ELSE conversation_lookup
    /\ UNCHANGED <<messages_by_conversation, conversations_by_user, now>>

\* get_conversation: the one SELECT ... LIMIT 1 query and the return
CallGetConversation(p) ==
    /\ AtRest(p)
    /\ calls < MaxCalls
    /\ calls' = calls + 1
    /\ \E cid \in RandomIds :
          call' = [call EXCEPT ![p] = Returned("get_conversation",
                      GetConversation(messages_by_conversation, cid))]
    /\ UNCHANGED <<tables, now>>

\* the COUNT(*) execute of a read raises; the controller turns it into HTTP 500
ReadFails(p) ==
    /\ call[p].pc \in {"gcm_count", "gmb_count", "guc_count"}
    /\ call' = [call EXCEPT ![p] = Returned("read_failed", <<>>)]
    /\ UNCHANGED <<tables, now, calls>>

ReadStep(p) ==
    \/ CallGetConversationMessages(p)
    \/ CountConversationMessages(p)
    \/ CallGetMessagesBeforeTimestamp(p)
    \/ CountMessagesBeforeTimestamp(p)
    \/ CallGetUserConversations(p)
    \/ CountUserConversations(p)
    \/ CallGetConversation(p)
    \/ ReadFails(p)

\* the writing calls together with the read calls
ReadNext == \E p \in Procs : Step(p) \/ ReadStep(p)

ReadSpec == Init /\ [][ReadNext]_vars

\* the names of the read operations
ReadOps == {"get_conversation_messages", "get_messages_before_timestamp",
            "get_user_conversations", "get_conversation"}

\* process p makes a step of a read operation: one of its queries, or its return
Reads(p) ==
    /\ call'[p] # call[p]
    /\ call'[p].op \in ReadOps \/ call[p].pc \in {"gcm_count", "gmb_count", "guc_count"}

\* C22: every step of get_conversation_messages, get_messages_before_timestamp,
\* get_user_conversations and get_conversation leaves conversation_lookup,
\* messages_by_conversation and conversations_by_user unchanged; a read never
\* creates a conversation.
C22_ReadsChangeNoTable ==
    [][\A p \in Procs : Reads(p) =>
          /\ conversation_lookup' = conversation_lookup
          /\ messages_by_conversation' = messages_by_conversation
          /\ conversations_by_user' = conversations_by_user]_vars

\* C22 witness: get_conversation has returned for a conversation id that has no
\* message and no row in conversation_lookup, while another conversation is stored.
C22_Witness ==
    \E p \in Procs :
       /\ call[p].pc = "done"
       /\ call[p].op = "get_conversation"
       /\ call[p].frame = NoConversation
       /\ conversation_lookup # {}
       /\ messages_by_conversation # {}
       /\ \E cid \in RandomIds : \A l \in conversation_lookup : l.conversation_id # cid

====
